---- MODULE Spec2Model ----
(***************************************************************************)
(* A model of bf.py: the Array tape, make_brace_map and the interpret      *)
(* loop.  Positions and the data pointer are 0-based as in the source;     *)
(* TLA+ sequences are 1-based, so cell p of the tape is array[p + 1] and   *)
(* the command at position p is program[p + 1].                            *)
(***************************************************************************)
EXTENDS Integers, Sequences, FiniteSets

VARIABLES program, stdin, pc, error, brace_map, machine, position, output, logged, incs

vars == <<program, stdin, pc, error, brace_map, machine, position, output, logged, incs>>

(* ---- bounds ---- *)
\* longest program text explored
MaxProgLen == 5
\* number of cells Array.__init__ allocates, scaled down from 30000
InitCells == 2
\* most cells the tape may grow to; '>' is not taken beyond it
MaxCells == 6
\* longest captured output; '.' is not taken beyond it
MaxOut == 5

\* the eight commands and one character that is not a command
Commands == {">", "<", "+", "-", ".", ",", "[", "]"}
Chars == Commands \cup {"#"}
Programs == UNION {[1..n -> Chars] : n \in 0..MaxProgLen}

\* code points getch() may deliver
InputBytes == {0, 1, 255}

\* a character is represented by the pair <<"chr", code point>>
chr(n) == <<"chr", n>>
ord(c) == c[2]
getch == {chr(b) : b \in InputBytes}

(* ---- class Array ---- *)
\* the result of a method call: the object afterwards, what was logged,
\* and the exception raised ("" for none)
Result(self, log, raised) == [self |-> self, log |-> log, raised |-> raised]

Array == [array |-> [i \in 1..InitCells |-> 0], ptr |-> 0]

get_data(self) == self.array[self.ptr + 1]

\* set_data that keeps only the low seven bits
set_data_ascii(self, n) == Result([self EXCEPT !.array[self.ptr + 1] = n % 128], "", "")

set_data(self, n) == Result([self EXCEPT !.array[self.ptr + 1] = n], "", "")

\* increment that wraps at 255 instead of 256
increment_255(self) ==
  LET v == self.array[self.ptr + 1] + 1
  IN  IF v >= 255
      THEN Result([self EXCEPT !.array[self.ptr + 1] = v % 255], "overflow", "")
      ELSE Result([self EXCEPT !.array[self.ptr + 1] = v], "", "")

increment(self) ==
  LET v == self.array[self.ptr + 1] + 1
  IN  IF v > 256
      THEN Result([self EXCEPT !.array[self.ptr + 1] = v % 256], "overflow", "")
      ELSE Result([self EXCEPT !.array[self.ptr + 1] = v], "", "")

\* decrement that raises on underflow instead of logging
decrement_raise(self) ==
  LET v == self.array[self.ptr + 1] - 1
  IN  IF v < 0
      THEN Result(self, "underflow", "ValueError")
      ELSE Result([self EXCEPT !.array[self.ptr + 1] = v], "", "")

\* decrement with the underflow test off by one
decrement_le(self) ==
  LET v == self.array[self.ptr + 1] - 1
  IN  IF v <= 0
      THEN Result([self EXCEPT !.array[self.ptr + 1] = v % 256], "underflow", "")
      ELSE Result([self EXCEPT !.array[self.ptr + 1] = v], "", "")

decrement(self) ==
  LET v == self.array[self.ptr + 1] - 1
  IN  IF v < 0
      THEN Result([self EXCEPT !.array[self.ptr + 1] = v % 256], "underflow", "")
      ELSE Result([self EXCEPT !.array[self.ptr + 1] = v], "", "")

\* right that expands by allocating a new zeroed list
right_realloc(self) ==
  LET p == self.ptr + 1
  IN  IF p >= Len(self.array)
      THEN Result([array |-> [i \in 1..(p + 1) |-> 0], ptr |-> p], "", "")
      ELSE Result([self EXCEPT !.ptr = p], "", "")

\* right with the expansion test off by one
right_gt(self) ==
  LET p == self.ptr + 1
  IN  IF p > Len(self.array)
      THEN Result([array |-> Append(self.array, 0), ptr |-> p], "", "")
      ELSE Result([self EXCEPT !.ptr = p], "", "")

right(self) ==
  LET p == self.ptr + 1
  IN  IF p >= Len(self.array)
      THEN Result([array |-> Append(self.array, 0), ptr |-> p], "", "")
      ELSE Result([self EXCEPT !.ptr = p], "", "")

\* left that stays at cell 0 instead of raising
left_clamp(self) ==
  IF self.ptr > 0
  THEN Result([self EXCEPT !.ptr = self.ptr - 1], "", "")
  ELSE Result(self, "", "")

\* left with the pointer test off by one
left_ge(self) ==
  IF self.ptr >= 0
  THEN Result([self EXCEPT !.ptr = self.ptr - 1], "", "")
  ELSE Result(self, "", "ValueError")

left(self) ==
  IF self.ptr > 0
  THEN Result([self EXCEPT !.ptr = self.ptr - 1], "", "")
  ELSE Result(self, "", "ValueError")

(* ---- make_brace_map ---- *)
EmptyDict == [k \in {} |-> 0]
Put(d, k, v) == [x \in (DOMAIN d) \cup {k} |-> IF x = k THEN v ELSE d[x]]

\* the scan state: the deque, the dict, and the exception raised so far
ScanInit == [temp_stack |-> <<>>, brace_map |-> EmptyDict, raised |-> ""]

\* on_open that counts positions from 1
on_open_from1(st, p) == [st EXCEPT !.temp_stack = Append(st.temp_stack, p + 1)]

on_open(st, p) == [st EXCEPT !.temp_stack = Append(st.temp_stack, p)]

\* on_close that records only the forward entry
on_close_oneway(st, p) ==
  IF st.temp_stack = <<>>
  THEN [st EXCEPT !.raised = "IndexError"]
  ELSE LET start == Head(st.temp_stack)
       IN  [temp_stack |-> Tail(st.temp_stack),
            brace_map |-> Put(st.brace_map, start, p),
            raised |-> ""]

\* on_close that skips a ']' met on an empty deque
on_close_skip(st, p) ==
  IF st.temp_stack = <<>>
  THEN st
  ELSE LET start == Head(st.temp_stack)
       IN  [temp_stack |-> Tail(st.temp_stack),
            brace_map |-> Put(Put(st.brace_map, start, p), p, start),
            raised |-> ""]

\* deque.popleft() takes the oldest pending position, and raises IndexError
\* on an empty deque
on_close(st, p) ==
  IF st.temp_stack = <<>>
  THEN [st EXCEPT !.raised = "IndexError"]
  ELSE LET start == Head(st.temp_stack)
       IN  [temp_stack |-> Tail(st.temp_stack),
            brace_map |-> Put(Put(st.brace_map, start, p), p, start),
            raised |-> ""]

\* the first position >= p holding a bracket, Len(prog) when there is none;
\* the for loop does nothing at the positions in between
NextBracket(prog, p) ==
  LET rest == {k \in p..(Len(prog) - 1) : prog[k + 1] \in {"[", "]"}}
  IN  IF rest = {} THEN Len(prog) ELSE CHOOSE k \in rest : \A j \in rest : k <= j

RECURSIVE scan(_, _, _)
scan(prog, p, st) ==
  LET q == NextBracket(prog, p)
  IN  IF q >= Len(prog) \/ st.raised # ""
      THEN st
      ELSE LET command == prog[q + 1]
               s1 == IF command = "[" THEN on_open(st, q) ELSE st
               s2 == IF command = "]" THEN on_close(s1, q) ELSE s1
           IN  scan(prog, q + 1, s2)

make_brace_map(prog) == scan(prog, 0, ScanInit)

(* ---- history: increments applied to each never otherwise written cell ---- *)
NoCount == -1
CountInc(c) == IF c = NoCount \/ c >= 256 THEN NoCount ELSE c + 1
IncsAfter(m, ch) ==
  LET grown == IF Len(m.array) > Len(incs) THEN Append(incs, 0) ELSE incs
  IN  IF ch = "+" THEN [grown EXCEPT ![m.ptr + 1] = CountInc(@)]
      ELSE IF ch \in {"-", ","} THEN [grown EXCEPT ![m.ptr + 1] = NoCount]
      ELSE grown

(* ---- interpret ---- *)
\* the state before interpret(program) runs its first line; stdin holds the
\* characters the terminal can deliver to getch()
Fresh ==
  /\ pc = "start"
  /\ error = ""
  /\ brace_map = EmptyDict
  /\ machine = [array |-> <<>>, ptr |-> 0]
  /\ position = 0
  /\ output = <<>>
  /\ logged = ""
  /\ incs = <<>>

Init ==
  /\ program \in Programs
  /\ stdin = getch
  /\ Fresh

\* lines 125-128: build the brace map, create the machine, position = 0
Start ==
  /\ pc = "start"
  /\ LET st == make_brace_map(program)
     IN  IF st.raised # ""
         THEN /\ pc' = "error"
              /\ error' = st.raised
              /\ UNCHANGED <<brace_map, machine, incs>>
         ELSE /\ pc' = "run"
              /\ brace_map' = st.brace_map
              /\ machine' = Array
              /\ incs' = [i \in 1..InitCells |-> 0]
              /\ UNCHANGED error
  /\ position' = 0
  /\ UNCHANGED <<program, stdin, output, logged>>

Running == pc = "run" /\ position < Len(program)
current_char == program[position + 1]

\* Apply with the exception caught and dropped
Apply_swallow(r, ch) ==
  /\ logged' = r.log
  /\ machine' = r.self
  /\ incs' = IncsAfter(r.self, ch)
  /\ position' = position + 1
  /\ UNCHANGED <<pc, error>>
  /\ UNCHANGED <<program, stdin, brace_map, output>>

\* a tape method called from the loop, followed by position += 1
Apply(r, ch) ==
  /\ logged' = r.log
  /\ IF r.raised # ""
     THEN /\ pc' = "error"
          /\ error' = r.raised
          /\ UNCHANGED <<machine, position, incs>>
     ELSE /\ machine' = r.self
          /\ incs' = IncsAfter(r.self, ch)
          /\ position' = position + 1
          /\ UNCHANGED <<pc, error>>
  /\ UNCHANGED <<program, stdin, brace_map, output>>

StepRight ==
  /\ Running /\ current_char = ">"
  /\ machine.ptr + 1 < MaxCells
  /\ Apply(right(machine), ">")
StepLeft == Running /\ current_char = "<" /\ Apply(left(machine), "<")
StepIncrement == Running /\ current_char = "+" /\ Apply(increment(machine), "+")
StepDecrement == Running /\ current_char = "-" /\ Apply(decrement(machine), "-")

StepOutput ==
  /\ Running /\ current_char = "."
  /\ Len(output) < MaxOut
  /\ output' = Append(output, chr(get_data(machine)))
  /\ position' = position + 1
  /\ logged' = ""
  /\ UNCHANGED <<program, stdin, pc, error, brace_map, machine, incs>>

StepInput ==
  /\ Running /\ current_char = ","
  /\ \E c \in stdin : Apply(set_data(machine, ord(c)), ",")

\* Jump without the position += 1 that follows the dispatch
Jump_stay ==
  /\ logged' = ""
  /\ IF position \in DOMAIN brace_map
     THEN /\ position' = brace_map[position]
          /\ UNCHANGED <<pc, error>>
     ELSE /\ pc' = "error"
          /\ error' = "KeyError"
          /\ UNCHANGED position
  /\ UNCHANGED <<program, stdin, brace_map, machine, output, incs>>

\* position = brace_map[position]; position += 1, KeyError when the key is missing
Jump ==
  /\ logged' = ""
  /\ IF position \in DOMAIN brace_map
     THEN /\ position' = brace_map[position] + 1
          /\ UNCHANGED <<pc, error>>
     ELSE /\ pc' = "error"
          /\ error' = "KeyError"
          /\ UNCHANGED position
  /\ UNCHANGED <<program, stdin, brace_map, machine, output, incs>>

StepOpenJump == Running /\ current_char = "[" /\ get_data(machine) = 0 /\ Jump
StepCloseJump == Running /\ current_char = "]" /\ get_data(machine) # 0 /\ Jump

StepPass ==
  /\ Running
  /\ \/ current_char \notin Commands
     \/ current_char = "[" /\ get_data(machine) # 0
     \/ current_char = "]" /\ get_data(machine) = 0
  /\ position' = position + 1
  /\ logged' = ""
  /\ UNCHANGED <<program, stdin, pc, error, brace_map, machine, output, incs>>

\* the while condition fails: interpret returns
Return ==
  /\ pc = "run" /\ position >= Len(program)
  /\ pc' = "done"
  /\ UNCHANGED <<program, stdin, error, brace_map, machine, position, output, logged, incs>>

Next ==
  \/ Start
  \/ StepRight
  \/ StepLeft
  \/ StepIncrement
  \/ StepDecrement
  \/ StepOutput
  \/ StepInput
  \/ StepOpenJump
  \/ StepCloseJump
  \/ StepPass
  \/ Return

Spec == Init /\ [][Next]_vars

(* ---- runs of the shorter programs, under fairness ---- *)
\* longest program text explored under fairness
MaxShortLen == 4
ShortPrograms == UNION {[1..n -> Chars] : n \in 0..MaxShortLen}

ShortInit ==
  /\ program \in ShortPrograms
  /\ stdin = getch
  /\ Fresh

\* the interpreter always takes its next step, and getch() returns
ShortFair == ShortInit /\ [][Next]_vars /\ WF_vars(Next)

(* ---- runs of named programs with one injected input character ---- *)
\* most '+' commands in a program of the form +...+.
MaxPlus == 255

PlusDot(n) == [i \in 1..(n + 1) |-> IF i <= n THEN "+" ELSE "."]
CommaDot == <<",", ".">>
MoveLoop == <<"+", "[", ">", "+", "<", "-", "]">>
InMoveLoop == <<",", "[", ">", "+", "<", "-", "]">>
InClearLoop == <<",", "[", "-", "]">>
NestedLoop == <<"+", "[", ">", "[", "-", "]", "<", "-", "]">>
IncDec == <<",", "+", "-">>
DecInc == <<",", "-", "+">>

TestPrograms ==
  {PlusDot(n) : n \in 0..MaxPlus}
    \cup {CommaDot, MoveLoop, InMoveLoop, InClearLoop, NestedLoop, IncDec, DecInc}

AllBytes == 0..255
Reads(prog) == \E k \in 1..Len(prog) : prog[k] = ","

\* the injected character is fixed for the whole run
TestInit ==
  /\ program \in TestPrograms
  /\ stdin \in (IF Reads(program) THEN {{chr(b)} : b \in AllBytes} ELSE {{chr(0)}})
  /\ Fresh

TestSpec == TestInit /\ [][Next]_vars

\* the interpreter always takes its next step, and getch() returns
TestFair == TestSpec /\ WF_vars(Next)

TypeOK ==
  /\ pc \in {"start", "run", "done", "error"}
  /\ error \in {"", "IndexError", "KeyError", "ValueError"}
  /\ Len(incs) = Len(machine.array)
(* ---- reference notions used by the properties ---- *)
\* number of '[' minus number of ']' among positions a..b
Depth(prog, a, b) ==
  Cardinality({k \in a..b : prog[k + 1] = "["})
    - Cardinality({k \in a..b : prog[k + 1] = "]"})

Balanced(prog) ==
  /\ Depth(prog, 0, Len(prog) - 1) = 0
  /\ \A k \in 0..(Len(prog) - 1) : Depth(prog, 0, k) >= 0

\* q closes the '[' at p under nested pairing
Closes(prog, p, q) ==
  /\ q > p
  /\ prog[q + 1] = "]"
  /\ Depth(prog, p, q) = 0
  /\ \A r \in p..(q - 1) : Depth(prog, p, r) > 0

\* a ']' is met while no '[' is pending
UnmatchedClose(prog) == \E k \in 0..(Len(prog) - 1) : Depth(prog, 0, k) < 0

\* some '[' is never closed
UnmatchedOpen(prog) ==
  \E p \in 0..(Len(prog) - 1) :
    /\ prog[p + 1] = "["
    /\ \A q \in p..(Len(prog) - 1) : Depth(prog, p, q) > 0

BracketPositions(prog) == {k \in 0..(Len(prog) - 1) : prog[k + 1] \in {"[", "]"}}

\* the table of nested pairing, for a balanced program
NestedTable(prog) ==
  [k \in BracketPositions(prog) |->
     IF prog[k + 1] = "["
     THEN CHOOSE q \in BracketPositions(prog) : Closes(prog, k, q)
     ELSE CHOOSE p \in BracketPositions(prog) : Closes(prog, p, k)]

MachineExists == pc \in {"run", "done"} \/ (pc = "error" /\ error # "IndexError")
Cells == 1..Len(machine.array)
Max(a, b) == IF a >= b THEN a ELSE b
\* the command at position - 1 has just been executed
JustRan(ch) == pc = "run" /\ position > 0 /\ program[position] = ch

(* ---- properties ---- *)

\* C1: in every reachable state every tape cell holds a value in 0..255.
C1_CellsAreBytes == \A i \in Cells : machine.array[i] \in 0..255

\* C2: after 256 increments of a freshly zeroed cell the cell is 0, and of
\* the first 256 increments exactly the 256th reports an overflow.
C2_WrapAt256 ==
  (JustRan("+") /\ incs[machine.ptr + 1] \in 1..256) =>
     /\ (logged = "overflow") <=> (incs[machine.ptr + 1] = 256)
     /\ incs[machine.ptr + 1] = 256 => get_data(machine) = 0

\* C3: '-' on a cell holding 0 leaves 255, reports an underflow and the run
\* continues; '-' on a cell holding 1..255 reports no underflow.
C3_DecrementStep ==
  (Running /\ current_char = "-") =>
     LET v == get_data(machine)
     IN  /\ v = 0 => /\ machine'.array[machine.ptr + 1] = 255
                     /\ logged' = "underflow"
                     /\ pc' = "run" /\ position' = position + 1
         /\ v \in 1..255 => logged' # "underflow"
C3_Decrement == [][C3_DecrementStep]_vars
C3_Witness == pc = "run" /\ logged = "underflow" /\ get_data(machine) = 255

\* C4: '<' at pointer 0 fails with ValueError and leaves the pointer and all
\* cells unchanged; '<' at a pointer > 0 succeeds and lowers it by exactly 1.
C4_LeftStep ==
  (Running /\ current_char = "<") =>
     IF machine.ptr = 0
     THEN pc' = "error" /\ error' = "ValueError" /\ machine' = machine
     ELSE pc' = "run" /\ error' = "" /\ machine'.ptr = machine.ptr - 1
C4_Left == [][C4_LeftStep]_vars
C4_Witness == pc = "error" /\ error = "ValueError" /\ machine.ptr = 0

\* C5: the N-th of N leading '>' commands, run from pointer 0 on a tape of
\* InitCells cells, succeeds, leaves the pointer at N and the tape length at
\* max(InitCells, N + 1), and appends at most one zero cell.
C5_RightStep ==
  (Running /\ \A k \in 1..(position + 1) : program[k] = ">") =>
     /\ pc' = "run"
     /\ machine'.ptr = position + 1
     /\ Len(machine'.array) = Max(InitCells, position + 2)
     /\ machine'.array \in {machine.array, Append(machine.array, 0)}
C5_Right == [][C5_RightStep]_vars
C5_Witness ==
  /\ pc = "run" /\ position = Len(program) /\ position >= InitCells
  /\ \A k \in 1..position : program[k] = ">"
  /\ machine.ptr = position /\ Len(machine.array) = position + 1

\* C6: after every step the pointer is a valid index of the tape, and the
\* tape never gets shorter.
C6_PointerStep ==
  /\ MachineExists' => (0 <= machine'.ptr /\ machine'.ptr < Len(machine'.array))
  /\ Len(machine'.array) >= Len(machine.array)
C6_Pointer == [][C6_PointerStep]_vars
C6_Witness ==
  /\ pc = "run" /\ Len(machine.array) > InitCells
  /\ machine.ptr < Len(machine.array) - 1

\* C7: for a program with balanced brackets the brace map is the table of
\* nested pairing, with exactly the bracket positions as keys.
C7_NestedPairing ==
  (pc = "run" /\ Balanced(program)) => brace_map = NestedTable(program)

\* C8: the brace map is an involution on its keys.
C8_Involution ==
  \A k \in DOMAIN brace_map :
     brace_map[k] \in DOMAIN brace_map /\ brace_map[brace_map[k]] = k
C8_Witness == pc = "run" /\ Cardinality(DOMAIN brace_map) >= 4

\* C9: a program with an unclosed '[' is rejected before any instruction
\* executes: the position never leaves 0, no cell is changed, no output is
\* written, the run never returns normally and no error is raised by the loop.
C9_UnclosedRejected ==
  UnmatchedOpen(program) =>
     /\ position = 0 /\ output = <<>>
     /\ \A i \in Cells : machine.array[i] = 0
     /\ pc # "done"
     /\ error \notin {"KeyError", "ValueError"}

\* C10: a program with a ']' met while no '[' is pending fails while the
\* brace map is built: it never runs, no tape is created or changed, and
\* no output is written.
C10_StrayCloseRejected ==
  UnmatchedClose(program) =>
     /\ pc \in {"start", "error"}
     /\ pc = "error" => error = "IndexError"
     /\ machine.array = <<>> /\ output = <<>> /\ position = 0
C10_Witness == UnmatchedClose(program) /\ pc = "error" /\ error = "IndexError"
\* the injected character of a run of TestSpec
Injected == CHOOSE c \in stdin : TRUE

\* programs whose loop body lowers the tested cell 0 by one per iteration
FlatLoops == {MoveLoop, InMoveLoop, InClearLoop}
DecrementLoops == FlatLoops \cup {NestedLoop}

\* C11: a loop whose body lowers the tested cell by exactly 1 per iteration,
\* entered with n > 0 in that cell, ends with the tested cell at 0 after the
\* body ran n times (so the cell counting the iterations holds n).
C11_LoopRunsOut ==
  (program \in DecrementLoops /\ pc = "done") =>
     /\ machine.array[1] = 0
     /\ program \in {MoveLoop, InMoveLoop} =>
           incs[2] = (IF program = MoveLoop THEN 1 ELSE ord(Injected))
\* the same for the loops without an inner loop
C11_FlatLoopRunsOut ==
  (program \in FlatLoops /\ pc = "done") =>
     /\ machine.array[1] = 0
     /\ program \in {MoveLoop, InMoveLoop} =>
           incs[2] = (IF program = MoveLoop THEN 1 ELSE ord(Injected))
C11_FlatLoopsEnd == (program \in FlatLoops) => <>(pc = "done")
\* C12: '<' executed with the pointer at 0 stops the run at once with
\* ValueError: position, tape and output stay as they were, and no step is
\* ever taken from a state in which an error has been raised.
C12_FatalStep ==
  /\ (Running /\ current_char = "<" /\ machine.ptr = 0) =>
        /\ pc' = "error" /\ error' = "ValueError"
        /\ position' = position /\ output' = output /\ machine' = machine
  /\ pc = "error" => UNCHANGED vars
C12_Fatal == [][C12_FatalStep]_vars
C12_Witness ==
  /\ pc = "error" /\ error = "ValueError"
  /\ position + 1 < Len(program) /\ output # <<>>

\* C13: the program ",." with any injected byte b ends normally having
\* written exactly one character, the one with code b.
C13_PassThrough ==
  (program = CommaDot) => <>(pc = "done" /\ output = <<Injected>>)
C13_Witness == program = CommaDot /\ pc = "done" /\ output = <<chr(255)>>

\* C14: the program of n '+' and one '.', n in 0..255, ends normally having
\* written exactly one character, the one with code n.
IsPlusDot(prog) ==
  /\ Len(prog) - 1 \in AllBytes
  /\ prog[Len(prog)] = "."
  /\ \A k \in 1..(Len(prog) - 1) : prog[k] = "+"
C14_PlusDot ==
  IsPlusDot(program) =>
     <>(pc = "done" /\ output = <<chr(Len(program) - 1)>>)
C14_Witness == program = PlusDot(3) /\ pc = "done" /\ output = <<chr(3)>>
\* the loop takes the branch that assigns position = brace_map[position]
JumpCase ==
  \/ current_char = "[" /\ get_data(machine) = 0
  \/ current_char = "]" /\ get_data(machine) # 0

\* C15: a step of the loop at position p that raises nothing goes to
\* brace_map[p] + 1 when the command is '[' on a zero cell or ']' on a
\* nonzero cell, and to p + 1 in every other case.
C15_NextStep ==
  (Running /\ pc' = "run") =>
     position' = (IF JumpCase THEN brace_map[position] + 1 ELSE position + 1)
C15_NextPosition == [][C15_NextStep]_vars
C15_Witness == program = <<"[", "+", "]">> /\ pc = "run" /\ position = 3

\* C16: in a program with balanced brackets, '[' executed on a zero cell
\* continues right after its matching ']' under nested pairing.
C16_SkipStep ==
  (Running /\ Balanced(program) /\ current_char = "[" /\ get_data(machine) = 0
     /\ pc' = "run") =>
     position' = NestedTable(program)[position] + 1
C16_Skip == [][C16_SkipStep]_vars

\* C17: '.', '[', ']' and other characters leave the tape as it is; '+',
\* '-' and ',' change at most the cell at the pointer; '>' and '<' change
\* no existing cell; only '.' changes the output; the brace map never
\* changes while the loop runs.
C17_FrameStep ==
  /\ pc = "run" => brace_map' = brace_map
  /\ Running =>
       LET ch == current_char
           a == machine.array
           b == machine'.array
       IN  /\ ch # "." => output' = output
           /\ ch \notin {">", "<", "+", "-", ","} => machine' = machine
           /\ ch \in {"+", "-", ","} =>
                /\ machine'.ptr = machine.ptr
                /\ Len(b) = Len(a)
                /\ \A i \in 1..Len(a) : i # machine.ptr + 1 => b[i] = a[i]
           /\ ch \in {">", "<"} => \A i \in 1..Len(a) : b[i] = a[i]
C17_Frame == [][C17_FrameStep]_vars
C17_Witness ==
  /\ JustRan(">") /\ Len(machine.array) > InitCells
  /\ machine.array[1] # 0
BracketFree(prog) == \A k \in 1..Len(prog) : prog[k] \notin {"[", "]"}

\* interpret has returned normally, or '<' at pointer 0 has raised
Stopped ==
  \/ pc = "done" /\ position = Len(program)
  \/ /\ pc = "error" /\ error = "ValueError"
     /\ position < Len(program) /\ current_char = "<" /\ machine.ptr = 0

\* C18: a run of a program without brackets stops, each step before that
\* advances the position by one (so at most Len(program) commands run), it
\* stops only by returning at position Len(program) or by the ValueError of
\* '<' at pointer 0, and a step that logs overflow or underflow goes on.
C18_Step ==
  (BracketFree(program) /\ Running) =>
     \/ pc' = "run" /\ position' = position + 1
     \/ pc' = "error" /\ logged' = "" /\ current_char = "<"
C18_StraightLine ==
  /\ BracketFree(program) => <>Stopped
  /\ [](BracketFree(program) /\ pc \in {"done", "error"} => Stopped)
  /\ [][C18_Step]_vars
C18_Witness ==
  /\ BracketFree(program) /\ pc = "done" /\ position = Len(program)
  /\ logged = "underflow"
\* C19: for a program with balanced brackets the position stays within
\* 0..Len(program), no lookup in the brace map misses, every '[' is mapped
\* to a greater position and every ']' to a smaller one.
C19_JumpsInRange ==
  Balanced(program) =>
     /\ 0 <= position /\ position <= Len(program)
     /\ error # "KeyError"
     /\ pc = "run" =>
          \A k \in BracketPositions(program) :
             /\ k \in DOMAIN brace_map
             /\ program[k + 1] = "[" => brace_map[k] > k
             /\ program[k + 1] = "]" => brace_map[k] < k
C19_Witness ==
  /\ program = <<"+", "[", "+", "]">> /\ pc = "run"
  /\ position = 2 /\ incs[1] = 2

\* C20: on a cell holding v in 0..255, increment then decrement, and
\* decrement then increment, both leave v.
C20_Inverse ==
  (program \in {IncDec, DecInc} /\ pc = "done") =>
     get_data(machine) = ord(Injected)
====
